---- MODULE Spec2Model ----
(***************************************************************************)
(* Authentication and first-run bootstrap gate of the In Vitro media        *)
(* manager (src/app.py).                                                    *)
(*                                                                          *)
(* One interaction of a client context is a Streamlit script run: the      *)
(* widget callback of the event (password_entered, logout,                  *)
(* eliminar_medio_cultivo) runs first, then the script body                 *)
(* (check_password, then app_ui when authenticated).  A run is split at     *)
(* its accesses to the shared store: callback, head of check_password       *)
(* (the existence query), and the rest of the body.                         *)
(*                                                                          *)
(* Text is a sequence of one-character strings.  bytes and str values are   *)
(* records [type, val] so that the str -> bytes normalisation of            *)
(* get_user_from_db is a real conversion.                                   *)
(***************************************************************************)
EXTENDS Integers, Sequences, FiniteSets, TLC

(***************************************************************************)
(* Bounds and input alphabets                                                *)
(***************************************************************************)
\* number of ingredient records the catalogue may hold in the model
MaxMedios == 1

\* client contexts (browser sessions)
Clients == {1, 2}

\* what a user can type in a username field
UsernameInputs == {<<>>, <<" ">>, <<"a">>, <<" ", "a">>, <<"b">>}
\* what a user can type in a password field
PasswordInputs == {<<>>, <<"p">>, <<"p", " ">>}
\* salts bcrypt.gensalt() can draw
Salts == {"s", "t"}
\* outcome of one store access: fine, connect fails, the query fails
Faults == {"ok", "connfail", "queryfail"}
\* how the driver hands back the hashed_password column: raw bytes (BYTEA),
\* text holding hex digits, text holding the bytes as latin1 characters,
\* text in PostgreSQL's bytea output format (backslash, x, hex digits)
Representations == {"bytes", "hex", "latin1", "pghex"}

None == [type |-> "None"]

(***************************************************************************)
(* Text helpers                                                              *)
(***************************************************************************)
IsSpace(ch) == ch = " "

RECURSIVE LStrip(_)
LStrip(s) == IF s # <<>> /\ IsSpace(Head(s)) THEN LStrip(Tail(s)) ELSE s

RECURSIVE RStrip(_)
RStrip(s) ==
    IF s # <<>> /\ IsSpace(s[Len(s)]) THEN RStrip(SubSeq(s, 1, Len(s) - 1)) ELSE s

\* str.strip()
Strip(s) == RStrip(LStrip(s))

\* truthiness of a Python str
Truthy(s) == s # <<>>

HexDigits == {"0", "1", "2", "3", "4", "5", "6", "7", "8", "9",
              "a", "b", "c", "d", "e", "f"}

\* the two hex digits of each byte value the model uses
HexTable ==
    [ch \in {"$", " ", "p", "q", "s", "t"} |->
        CASE ch = "$" -> <<"2", "4">>
          [] ch = " " -> <<"2", "0">>
          [] ch = "p" -> <<"7", "0">>
          [] ch = "q" -> <<"7", "1">>
          [] ch = "s" -> <<"7", "3">>
          [] ch = "t" -> <<"7", "4">>]

RECURSIVE ToHex(_)
\* bytes.hex()
ToHex(b) == IF b = <<>> THEN <<>> ELSE HexTable[Head(b)] \o ToHex(Tail(b))

RECURSIVE DropSpaces(_)
DropSpaces(s) ==
    IF s = <<>> THEN <<>>
    ELSE IF IsSpace(Head(s)) THEN DropSpaces(Tail(s))
    ELSE <<Head(s)>> \o DropSpaces(Tail(s))

UnhexPair(hi, lo) ==
    IF \E ch \in DOMAIN HexTable : HexTable[ch] = <<hi, lo>>
    THEN CHOOSE ch \in DOMAIN HexTable : HexTable[ch] = <<hi, lo>>
    ELSE "?"

RECURSIVE UnhexPairs(_)
UnhexPairs(s) ==
    IF s = <<>> THEN <<>>
    ELSE <<UnhexPair(s[1], s[2])>> \o UnhexPairs(SubSeq(s, 3, Len(s)))

\* bytes.fromhex(s): whitespace is skipped; ValueError unless what is left is
\* an even number of hex digits
FromHex(s) ==
    LET d == DropSpaces(s) IN
    IF Len(d) % 2 = 0 /\ \A i \in 1..Len(d) : d[i] \in HexDigits
    THEN [ok |-> TRUE, val |-> UnhexPairs(d)]
    ELSE [ok |-> FALSE, val |-> <<>>]

(***************************************************************************)
(* Password hashing (bcrypt)                                                 *)
(***************************************************************************)
\* bcrypt.hashpw(password, salt): version marker, the salt, then the digest,
\* which is injective in the password
HashPw(password, salt) == <<"$", salt>> \o password

\* get_hashed_password: bcrypt.hashpw(password.encode('utf-8'), bcrypt.gensalt())
get_hashed_password(password, salt) == [type |-> "bytes", val |-> HashPw(password, salt)]

\* check_hashed_password: bcrypt.checkpw(password.encode('utf-8'), hashed_password)
\* raises TypeError on str and ValueError ("Invalid salt") on a value that is
\* not a bcrypt hash; otherwise re-hashes with the embedded salt and compares
check_hashed_password(password, hashed_password) ==
    IF hashed_password.type # "bytes" THEN "raise"
    ELSE LET h == hashed_password.val IN
         IF Len(h) < 2 \/ h[1] # "$" \/ h[2] \notin Salts THEN "raise"
         ELSE IF HashPw(password, h[2]) = h THEN "true" ELSE "false"

(***************************************************************************)
(* The users table as the driver returns it                                  *)
(***************************************************************************)
\* the value psycopg2 returns for a stored hash, per column representation
Returned(rep, stored) ==
    CASE rep = "bytes"  -> [type |-> "bytes", val |-> stored]
      [] rep = "hex"    -> [type |-> "str", val |-> ToHex(stored)]
      [] rep = "latin1" -> [type |-> "str", val |-> stored]
      [] rep = "pghex"  -> [type |-> "str", val |-> <<"\\", "x">> \o ToHex(stored)]

\* src/app.py 81-86: a str is decoded as hex, or encoded as latin1 when it is
\* not hex
NormaliseHash(hashed_from_db) ==
    IF hashed_from_db.type = "str"
    THEN LET h == FromHex(hashed_from_db.val) IN
         IF h.ok THEN [type |-> "bytes", val |-> h.val]
         ELSE [type |-> "bytes", val |-> hashed_from_db.val]
    ELSE hashed_from_db

(***************************************************************************)
(* Credential store operations (src/app.py 39-145)                           *)
(***************************************************************************)
\* a row of the users table; via records which form inserted it
UserRow(username, hashed, is_admin, via) ==
    [username |-> username, hashed_password |-> hashed, is_admin |-> is_admin,
     via |-> via]

\* get_db_connection: psycopg2.connect, or st.error and st.stop() when it fails
get_db_connection(f) ==
    IF f = "connfail"
    THEN [outcome |-> "stop", msgs |-> {"conn_error"}, opened |-> 0]
    ELSE [outcome |-> "return", msgs |-> {}, opened |-> 1]

\* get_user_from_db: the row's normalised hash and admin flag, or None; a
\* failing query propagates as psycopg2.Error; finally closes what was opened
get_user_from_db(table, username, f, rep) ==
    LET conn == get_db_connection(f)
        rows == {r \in table : r.username = username}
    IN  IF conn.outcome = "stop"
        THEN [outcome |-> "stop", value |-> None, msgs |-> conn.msgs,
              opened |-> conn.opened, closed |-> 0]
        ELSE IF f = "queryfail"
        THEN [outcome |-> "raise", value |-> None, msgs |-> {},
              opened |-> conn.opened, closed |-> 1]
        ELSE IF rows # {}
        THEN LET result == CHOOSE r \in rows : TRUE IN
             [outcome |-> "return",
              value |-> [type |-> "user",
                         hashed_password |->
                             NormaliseHash(Returned(rep, result.hashed_password)),
                         is_admin |-> result.is_admin],
              msgs |-> {}, opened |-> conn.opened, closed |-> 1]
        ELSE [outcome |-> "return", value |-> None, msgs |-> {},
              opened |-> conn.opened, closed |-> 1]

\* check_for_any_user_in_db: SELECT 1 FROM users LIMIT 1; a failing query is
\* reported and answered False
check_for_any_user_in_db(table, f) ==
    LET conn == get_db_connection(f) IN
    IF conn.outcome = "stop"
    THEN [outcome |-> "stop", value |-> FALSE, msgs |-> conn.msgs,
          opened |-> conn.opened, closed |-> 0]
    ELSE IF f = "queryfail"
    THEN [outcome |-> "return", value |-> FALSE, msgs |-> {"exists_error"},
          opened |-> conn.opened, closed |-> 1]
    ELSE [outcome |-> "return", value |-> table # {}, msgs |-> {},
          opened |-> conn.opened, closed |-> 1]

\* an insert that never raises UniqueViolation
InsertUser_noConstraint(table, row) == [error |-> "none", table |-> table \cup {row}]

\* INSERT INTO users under the table's UNIQUE(username) constraint
InsertUser(table, row) ==
    IF \E r \in table : r.username = row.username
    THEN [error |-> "UniqueViolation", table |-> table]
    ELSE [error |-> "none", table |-> table \cup {row}]

\* an input check that forgets the password
EmptyCredentials_usernameOnly(username, password) == ~Truthy(username)

\* the input check of add_user_to_db (src/app.py 117)
EmptyCredentials(username, password) == ~Truthy(username) \/ ~Truthy(password)

\* add_user_to_db: True after the committed insert, False with a message
\* otherwise
add_user_to_db(table, username, password, is_admin, salt, f, via) ==
    IF EmptyCredentials(username, password)
    THEN [outcome |-> "return", value |-> FALSE, table |-> table,
          msgs |-> {"empty_invalid"}, result |-> "invalid",
          opened |-> 0, closed |-> 0]
    ELSE LET conn == get_db_connection(f)
             hashed_password == get_hashed_password(password, salt)
             ins == InsertUser(table,
                               UserRow(username, hashed_password.val, is_admin, via))
         IN  IF conn.outcome = "stop"
             THEN [outcome |-> "stop", value |-> FALSE, table |-> table,
                   msgs |-> conn.msgs, result |-> "stop",
                   opened |-> conn.opened, closed |-> 0]
             ELSE IF f = "queryfail"
             THEN [outcome |-> "return", value |-> FALSE, table |-> table,
                   msgs |-> {"save_error"}, result |-> "dberror",
                   opened |-> conn.opened, closed |-> 1]
             ELSE IF ins.error = "UniqueViolation"
             THEN [outcome |-> "return", value |-> FALSE, table |-> table,
                   msgs |-> {"user_exists"}, result |-> "conflict",
                   opened |-> conn.opened, closed |-> 1]
             ELSE [outcome |-> "return", value |-> TRUE, table |-> ins.table,
                   msgs |-> {"created"}, result |-> "ok",
                   opened |-> conn.opened, closed |-> 1]

(***************************************************************************)
(* State                                                                     *)
(***************************************************************************)
VARIABLES
    users,        \* the users table: a set of rows
    medios,       \* number of rows of medios_cultivo
    openConns,    \* database connections currently open
    ss,           \* st.session_state of each client context
    pc,           \* where each client's script run stands
    ev,           \* the form submission the current run has to process
    users_exist,  \* check_password's local users_exist
    run,          \* what the current (or last) run of each client did and shows
    made,         \* the create-user attempt of each client's last interaction
    clients       \* the client contexts that are connected

vars == <<users, medios, openConns, ss, pc, ev, users_exist, run, made, clients>>

Str(s) == [type |-> "str", val |-> s]

\* src/app.py 18-23, with the two login widgets still empty
InitialSession ==
    [authenticated |-> FALSE, username |-> None, is_admin |-> FALSE,
     username_input |-> <<>>, password_input |-> <<>>]

NoLogin == [result |-> "none", user |-> <<>>, echo |-> FALSE, fault |-> "ok",
            from |-> "none"]

NoCreate == [via |-> "none", result |-> "none", user |-> <<>>, pw |-> <<>>,
             opened |-> 0]

FreshRun ==
    [event |-> "none", view |-> "none", msgs |-> {}, app_ui |-> FALSE, adminTab |-> FALSE,
     listed |-> FALSE, calls |-> <<>>, login |-> NoLogin]

\* Streamlit drops the value of a widget that a finished run did not render
ClearWidgets(s) == [s EXCEPT !.username_input = <<>>, !.password_input = <<>>]

Start ==
    /\ users = {}
    /\ medios = 0
    /\ openConns = 0
    /\ ss = [c \in Clients |-> InitialSession]
    /\ pc = [c \in Clients |-> "idle"]
    /\ ev = [c \in Clients |-> "none"]
    /\ users_exist = [c \in Clients |-> FALSE]
    /\ run = [c \in Clients |-> FreshRun]
    /\ made = [c \in Clients |-> NoCreate]

\* one client context at a time (a request is handled to completion)
Init == Start /\ clients = {1}

(***************************************************************************)
(* Callbacks                                                                 *)
(***************************************************************************)
\* a login that forgets to take the role from the record
LoginSession_roleNotSet(session, username, user_data) ==
    [session EXCEPT !.authenticated = TRUE, !.username = Str(username)]

\* the session after a verified login (src/app.py 167-169)
LoginSession(session, username, user_data) ==
    [session EXCEPT !.authenticated = TRUE,
                    !.username = Str(username),
                    !.is_admin = user_data.is_admin]

\* check_password.password_entered (src/app.py 155-173)
password_entered(session, table, f, rep) ==
    LET username == Strip(session.username_input)
        password == session.password_input
        user_data == get_user_from_db(table, username, f, rep)
        found == user_data.outcome = "return" /\ user_data.value.type = "user"
        verdict == IF found
                   THEN check_hashed_password(password,
                                              user_data.value.hashed_password)
                   ELSE "skipped"
        calls == <<"get_user_from_db">> \o
                 (IF found THEN <<"check_hashed_password">> ELSE <<>>)
        base == [username |-> username, calls |-> calls, msgs |-> user_data.msgs,
                 opened |-> user_data.opened, closed |-> user_data.closed]
    IN  IF user_data.outcome # "return"
        THEN base @@ [outcome |-> user_data.outcome, result |-> user_data.outcome,
                      session |-> session]
        ELSE IF verdict = "raise"
        THEN base @@ [outcome |-> "raise", result |-> "raise", session |-> session]
        ELSE IF verdict = "true"
        THEN base @@ [outcome |-> "return", result |-> "ok",
                      session |-> LoginSession(session, username, user_data.value)]
        ELSE base @@ [outcome |-> "return", result |-> "failed",
                      session |-> [session EXCEPT !.authenticated = FALSE]]

\* a logout that leaves the identity and the role behind
logout_keepsIdentity(session) == [session EXCEPT !.authenticated = FALSE]

\* app_ui.logout (src/app.py 355-359)
logout(session) ==
    [session EXCEPT !.authenticated = FALSE, !.username = None, !.is_admin = FALSE]

\* a delete that closes the connection after asking for the rerun, without
\* finally
eliminar_medio_cultivo_closeAfterRerun(n, f) ==
    LET conn == get_db_connection(f) IN
    IF conn.outcome = "stop"
    THEN [outcome |-> "stop", medios |-> n, msgs |-> conn.msgs,
          opened |-> conn.opened, closed |-> 0]
    ELSE IF f = "queryfail"
    THEN [outcome |-> "return", medios |-> n, msgs |-> {"delete_error"},
          opened |-> conn.opened, closed |-> 1]
    ELSE [outcome |-> "rerun", medios |-> IF n > 0 THEN n - 1 ELSE n, msgs |-> {},
          opened |-> conn.opened, closed |-> 0]

\* eliminar_medio_cultivo (src/app.py 294-312); the rerun it requests is raised
\* inside the try, so finally still closes the connection
eliminar_medio_cultivo(n, f) ==
    LET conn == get_db_connection(f) IN
    IF conn.outcome = "stop"
    THEN [outcome |-> "stop", medios |-> n, msgs |-> conn.msgs,
          opened |-> conn.opened, closed |-> 0]
    ELSE IF f = "queryfail"
    THEN [outcome |-> "return", medios |-> n, msgs |-> {"delete_error"},
          opened |-> conn.opened, closed |-> 1]
    ELSE [outcome |-> "rerun", medios |-> IF n > 0 THEN n - 1 ELSE n, msgs |-> {},
          opened |-> conn.opened, closed |-> 1]

\* insertar_medio_cultivo (src/app.py 222-241)
insertar_medio_cultivo(n, f) ==
    LET conn == get_db_connection(f) IN
    IF conn.outcome = "stop"
    THEN [outcome |-> "stop", medios |-> n, msgs |-> conn.msgs,
          opened |-> conn.opened, closed |-> 0]
    ELSE IF f = "queryfail"
    THEN [outcome |-> "return", medios |-> n, msgs |-> {"insert_error"},
          opened |-> conn.opened, closed |-> 1]
    ELSE [outcome |-> "return", medios |-> n + 1, msgs |-> {"saved"},
          opened |-> conn.opened, closed |-> 1]

\* obtener_medios_cultivo, obtener_nombres_especies, obtener_nombres_fases
\* (src/app.py 244-292): the rows, or [] after a failing query
obtener_medios_cultivo(n, f) ==
    LET conn == get_db_connection(f) IN
    IF conn.outcome = "stop"
    THEN [outcome |-> "stop", value |-> 0, msgs |-> conn.msgs,
          opened |-> conn.opened, closed |-> 0]
    ELSE IF f = "queryfail"
    THEN [outcome |-> "return", value |-> 0, msgs |-> {"read_error"},
          opened |-> conn.opened, closed |-> 1]
    ELSE [outcome |-> "return", value |-> n, msgs |-> {},
          opened |-> conn.opened, closed |-> 1]

\* actualizar_medio_cultivo (src/app.py 325-345): the row count stays
actualizar_medio_cultivo(n, f) ==
    LET conn == get_db_connection(f) IN
    IF conn.outcome = "stop"
    THEN [outcome |-> "stop", value |-> FALSE, medios |-> n, msgs |-> conn.msgs,
          opened |-> conn.opened, closed |-> 0]
    ELSE IF f = "queryfail"
    THEN [outcome |-> "return", value |-> FALSE, medios |-> n,
          msgs |-> {"update_error"}, opened |-> conn.opened, closed |-> 1]
    ELSE [outcome |-> "return", value |-> TRUE, medios |-> n, msgs |-> {"updated"},
          opened |-> conn.opened, closed |-> 1]

(***************************************************************************)
(* Events: the interaction that starts a script run, with its callback       *)
(***************************************************************************)
\* client context c is connected and its run stands at where
At(c, where) == c \in clients /\ pc[c] = where

\* the inputs an event or a run draws: all of S when it reads them, one fixed
\* value when it does not
FormInputs(pressed, S) == IF pressed THEN S ELSE {CHOOSE x \in S : TRUE}

\* a browser (re)load: a new client context, session_state as in lines 18-23
NewSession(c) ==
    /\ At(c, "idle")
    /\ ss' = [ss EXCEPT ![c] = InitialSession]
    /\ pc' = [pc EXCEPT ![c] = "script"]
    /\ ev' = [ev EXCEPT ![c] = "none"]
    /\ run' = [run EXCEPT ![c] = [FreshRun EXCEPT !.event = "new"]]
    /\ made' = [made EXCEPT ![c] = NoCreate]
    /\ UNCHANGED <<users, medios, openConns, users_exist, clients>>

\* "Entrar" of the Login form: the widget values are committed and
\* password_entered runs before the script body
LoginSubmit(c) ==
    /\ At(c, "idle")
    /\ run[c].view \in {"setup", "login"}
    /\ \E u \in UsernameInputs, p \in PasswordInputs, f \in Faults :
       \E rep \in FormInputs(f = "ok", Representations) :
       \E cb \in {password_entered([ss[c] EXCEPT !.username_input = u,
                                                   !.password_input = p],
                                     users, f, rep)} :
          LET echo == /\ made[c].via = "bootstrap"
                      /\ made[c].result = "ok"
                      /\ made[c].user = u
                      /\ made[c].pw = p
              lg == [result |-> cb.result, user |-> cb.username, echo |-> echo,
                     fault |-> f, from |-> run[c].view]
          IN  /\ ss' = [ss EXCEPT ![c] = IF cb.outcome = "stop"
                                         THEN ClearWidgets(cb.session)
                                         ELSE cb.session]
              /\ run' = [run EXCEPT ![c] =
                            [FreshRun EXCEPT !.event = "login",
                                             !.login = lg, !.calls = cb.calls,
                                             !.msgs = cb.msgs,
                                             !.view = CASE cb.outcome = "stop" -> "halt"
                                                        [] cb.outcome = "raise" -> "error"
                                                        [] OTHER -> "none"]]
              /\ pc' = [pc EXCEPT ![c] = IF cb.outcome = "return" THEN "script"
                                         ELSE "idle"]
              /\ openConns' = openConns + cb.opened - cb.closed
    /\ ev' = [ev EXCEPT ![c] = "none"]
    /\ made' = [made EXCEPT ![c] = NoCreate]
    /\ UNCHANGED <<users, medios, users_exist, clients>>

\* the sidebar button "Cerrar Sesion", rendered as soon as app_ui starts
LogoutClick(c) ==
    /\ At(c, "idle")
    /\ run[c].app_ui
    /\ ss' = [ss EXCEPT ![c] = logout(ss[c])]
    /\ pc' = [pc EXCEPT ![c] = "script"]
    /\ ev' = [ev EXCEPT ![c] = "none"]
    /\ run' = [run EXCEPT ![c] = [FreshRun EXCEPT !.event = "logout"]]
    /\ made' = [made EXCEPT ![c] = NoCreate]
    /\ UNCHANGED <<users, medios, openConns, users_exist, clients>>

\* a delete button of the catalogue: eliminar_medio_cultivo is its callback
DeleteClick(c) ==
    /\ At(c, "idle")
    /\ run[c].view = "app"
    /\ run[c].listed
    /\ \E f \in Faults :
       \E d \in {eliminar_medio_cultivo(medios, f)} :
          /\ medios' = d.medios
          /\ openConns' = openConns + d.opened - d.closed
          /\ run' = [run EXCEPT ![c] =
                        [FreshRun EXCEPT !.event = "delete", !.msgs = d.msgs,
                                         !.calls = <<"eliminar_medio_cultivo">>,
                                         !.view = IF d.outcome = "stop" THEN "halt"
                                                  ELSE "none"]]
          /\ pc' = [pc EXCEPT ![c] = IF d.outcome = "stop" THEN "idle" ELSE "script"]
          /\ ss' = [ss EXCEPT ![c] = IF d.outcome = "stop" THEN ClearWidgets(@) ELSE @]
    /\ ev' = [ev EXCEPT ![c] = "none"]
    /\ made' = [made EXCEPT ![c] = NoCreate]
    /\ UNCHANGED <<users, users_exist, clients>>

\* a form submission without callback: the run that follows processes it
StartRun(c, e) ==
    /\ At(c, "idle")
    /\ pc' = [pc EXCEPT ![c] = "script"]
    /\ ev' = [ev EXCEPT ![c] = e]
    /\ run' = [run EXCEPT ![c] = [FreshRun EXCEPT !.event = e]]
    /\ made' = [made EXCEPT ![c] = NoCreate]
    /\ UNCHANGED <<users, medios, openConns, ss, users_exist, clients>>

\* "Crear Administrador Inicial" of the Initial_Admin_Setup form
SetupSubmit(c) == run[c].view = "setup" /\ StartRun(c, "setup")

\* "Crear Usuario" of form_add_user in the admin tab
AddUserSubmit(c) == run[c].view = "app" /\ run[c].adminTab /\ StartRun(c, "adduser")

\* "Guardar Ingrediente" of form_registrar_medio
InsertSubmit(c) == run[c].view = "app" /\ StartRun(c, "insert")

(***************************************************************************)
(* The script body                                                           *)
(***************************************************************************)
EndRun(c, view, msgs, calls) ==
    run' = [run EXCEPT ![c] = [@ EXCEPT !.view = view, !.msgs = @ \cup msgs,
                                        !.calls = @ \o calls]]

\* a gate that lets every session through
PassesGate_open(session) == TRUE

\* what check_password answers without stopping the run (src/app.py 176, 215)
PassesGate(session) == session.authenticated

\* the admin tab is appended for administrators only (src/app.py 404-405)
HasAdminTab(session) == session.is_admin

\* check_password up to the existence query (src/app.py 176-179), or straight
\* to app_ui for an authenticated session (215, 650-651)
CheckPasswordEntry(c) ==
    /\ At(c, "script")
    /\ UNCHANGED clients
    /\ IF PassesGate(ss[c])
       THEN /\ pc' = [pc EXCEPT ![c] = "app"]
            /\ UNCHANGED <<users, medios, openConns, ss, ev, users_exist, run, made>>
       ELSE \E f \in Faults :
            \E q \in {check_for_any_user_in_db(users, f)} :
              /\ openConns' = openConns + q.opened - q.closed
              /\ IF q.outcome = "stop"
                 THEN /\ EndRun(c, "halt", q.msgs, <<"check_for_any_user_in_db">>)
                      /\ pc' = [pc EXCEPT ![c] = "idle"]
                      /\ ev' = [ev EXCEPT ![c] = "none"]
                      /\ ss' = [ss EXCEPT ![c] = ClearWidgets(@)]
                      /\ UNCHANGED users_exist
                 ELSE /\ EndRun(c, "none", q.msgs, <<"check_for_any_user_in_db">>)
                      /\ pc' = [pc EXCEPT ![c] = "form"]
                      /\ users_exist' = [users_exist EXCEPT ![c] = q.value]
                      /\ UNCHANGED <<ev, ss>>
              /\ UNCHANGED <<users, medios, made>>

\* the Initial_Admin_Setup form when its button was pressed (src/app.py 185-196)
SetupForm(table, tu, tp, salt, f) ==
    LET admin_user == Strip(tu)
        admin_password == Strip(tp)
        r == add_user_to_db(table, admin_user, admin_password, TRUE, salt, f,
                            "bootstrap")
    IN  IF Truthy(admin_user) /\ Truthy(admin_password)
        THEN [kind |-> IF r.outcome = "stop" THEN "halt"
                       ELSE IF r.value THEN "rerun" ELSE "continue",
              table |-> r.table, msgs |-> r.msgs, calls |-> <<"add_user_to_db">>,
              user |-> admin_user, pw |-> admin_password,
              made |-> [via |-> "bootstrap", result |-> r.result,
                        user |-> IF r.value THEN tu ELSE <<>>,
                        pw |-> IF r.value THEN tp ELSE <<>>,
                        opened |-> r.opened],
              opened |-> r.opened, closed |-> r.closed]
        ELSE [kind |-> "continue", table |-> table, msgs |-> {"fill_both"},
              calls |-> <<>>, user |-> admin_user, pw |-> admin_password,
              made |-> [via |-> "bootstrap", result |-> "invalid", user |-> <<>>,
                        pw |-> <<>>, opened |-> 0],
              opened |-> 0, closed |-> 0]

\* line 208: the condition under which the Login form shows its error
ShowsLoginError(session) ==
    session.authenticated = FALSE /\ Truthy(session.username_input)

\* a setup form that is processed whatever the existence check answered
SetupPressed_unchecked(c) == ev[c] = "setup"

\* st.form_submit_button of the setup form: True in the run its press started,
\* provided the form is rendered in this run
SetupPressed(c) == ~users_exist[c] /\ ev[c] = "setup"

\* the rest of check_password for an unauthenticated session (src/app.py
\* 182-212): the setup form when users_exist is False, then the Login form
CheckPasswordForms(c) ==
    /\ At(c, "form")
    /\ \E tu \in FormInputs(SetupPressed(c), UsernameInputs),
          tp \in FormInputs(SetupPressed(c), PasswordInputs),
          salt \in FormInputs(SetupPressed(c), Salts),
          f \in FormInputs(SetupPressed(c), Faults) :
       \E o \in {SetupForm(users, tu, tp, salt, f)} :
          LET submitted == SetupPressed(c)
              kind == IF submitted THEN o.kind ELSE "continue"
              shown == (IF users_exist[c] THEN {} ELSE {"no_users_warning"})
                       \cup (IF submitted THEN o.msgs ELSE {})
          IN  /\ made' = [made EXCEPT ![c] = IF submitted THEN o.made ELSE @]
              /\ users' = IF submitted THEN o.table ELSE users
              /\ openConns' = IF submitted THEN openConns + o.opened - o.closed
                              ELSE openConns
              /\ CASE kind = "halt" ->
                        /\ EndRun(c, "halt", shown, o.calls)
                        /\ pc' = [pc EXCEPT ![c] = "idle"]
                        /\ ss' = [ss EXCEPT ![c] = ClearWidgets(@)]
                   [] kind = "rerun" ->
                        /\ run' = [run EXCEPT ![c] = FreshRun]
                        /\ pc' = [pc EXCEPT ![c] = "script"]
                        /\ ss' = [ss EXCEPT ![c] = [@ EXCEPT !.username_input = o.user,
                                                            !.password_input = o.pw]]
                   [] OTHER ->
                        /\ EndRun(c, IF users_exist[c] THEN "login" ELSE "setup",
                                  shown \cup (IF ShowsLoginError(ss[c])
                                              THEN {"invalid_credentials"} ELSE {}),
                                  IF submitted THEN o.calls ELSE <<>>)
                        /\ pc' = [pc EXCEPT ![c] = "idle"]
                        /\ UNCHANGED ss
    /\ ev' = [ev EXCEPT ![c] = "none"]
    /\ UNCHANGED <<medios, users_exist, clients>>

\* the form a run of app_ui processes: form_registrar_medio (src/app.py
\* 469-474) or, in the admin tab, form_add_user (621-638)
AppForm(pressed, e, table, n, tu, tp, adm, salt, valid, f) ==
    LET new_username == Strip(tu)
        new_password == Strip(tp)
        r == add_user_to_db(table, new_username, new_password, adm, salt, f, "admin")
        i == insertar_medio_cultivo(n, f)
        idle == [kind |-> "continue", table |-> table, medios |-> n, msgs |-> {},
                 calls |-> <<>>, made |-> NoCreate, opened |-> 0, closed |-> 0]
    IN  IF e = "insert"
        THEN IF valid
             THEN [idle EXCEPT !.kind = IF i.outcome = "stop" THEN "halt" ELSE "rerun",
                               !.medios = i.medios, !.msgs = i.msgs,
                               !.calls = <<"insertar_medio_cultivo">>,
                               !.opened = i.opened, !.closed = i.closed]
             ELSE [idle EXCEPT !.msgs = {"required_fields"}]
        ELSE IF pressed
        THEN IF Truthy(new_username) /\ Truthy(new_password)
             THEN [idle EXCEPT !.kind = IF r.outcome = "stop" THEN "halt" ELSE "rerun",
                               !.table = r.table, !.msgs = r.msgs,
                               !.calls = <<"add_user_to_db">>,
                               !.made = [via |-> "admin", result |-> r.result,
                                         user |-> <<>>, pw |-> <<>>,
                                         opened |-> r.opened],
                               !.opened = r.opened, !.closed = r.closed]
             ELSE [idle EXCEPT !.msgs = {"fill_user"},
                               !.made = [via |-> "admin", result |-> "invalid",
                                         user |-> <<>>, pw |-> <<>>, opened |-> 0]]
        ELSE idle

\* st.form_submit_button of form_add_user, which only the admin tab renders
AddUserPressed(c) == ev[c] = "adduser" /\ HasAdminTab(ss[c])

\* app_ui (src/app.py 351-642): sidebar and logout button, the connection
\* check, the tabs (the admin tab only for is_admin), the submitted form
app_ui(c) ==
    /\ At(c, "app")
    /\ \E f0 \in {"ok", "connfail"},
          tu \in FormInputs(AddUserPressed(c), UsernameInputs),
          tp \in FormInputs(AddUserPressed(c), PasswordInputs),
          adm \in FormInputs(AddUserPressed(c), BOOLEAN),
          salt \in FormInputs(AddUserPressed(c), Salts),
          valid \in FormInputs(ev[c] = "insert", BOOLEAN),
          f \in FormInputs(AddUserPressed(c) \/ ev[c] = "insert", Faults) :
       \E o \in {AppForm(AddUserPressed(c), ev[c], users, medios, tu, tp, adm,
                           salt, valid, f)} :
          LET conn == get_db_connection(f0)
              kind == IF conn.outcome = "stop" THEN "halt" ELSE o.kind
              acted == conn.outcome # "stop"
          IN  /\ o.medios <= MaxMedios
              /\ users' = IF acted THEN o.table ELSE users
              /\ medios' = IF acted THEN o.medios ELSE medios
              /\ made' = [made EXCEPT ![c] = IF acted /\ o.made.via # "none"
                                             THEN o.made ELSE @]
              /\ openConns' = openConns + (conn.opened - conn.opened)
                              + (IF acted THEN o.opened - o.closed ELSE 0)
              /\ CASE kind = "halt" ->
                        /\ run' = [run EXCEPT ![c] =
                              [@ EXCEPT !.view = "halt", !.app_ui = TRUE,
                                        !.msgs = @ \cup conn.msgs
                                                 \cup (IF acted THEN o.msgs ELSE {}),
                                        !.calls = @ \o (IF acted THEN o.calls ELSE <<>>)]]
                        /\ pc' = [pc EXCEPT ![c] = "idle"]
                   [] kind = "rerun" ->
                        /\ run' = [run EXCEPT ![c] = FreshRun]
                        /\ pc' = [pc EXCEPT ![c] = "script"]
                   [] OTHER ->
                        /\ run' = [run EXCEPT ![c] =
                              [@ EXCEPT !.view = "app", !.app_ui = TRUE,
                                        !.adminTab = HasAdminTab(ss[c]),
                                        !.listed = medios > 0,
                                        !.msgs = @ \cup o.msgs]]
                        /\ pc' = [pc EXCEPT ![c] = "idle"]
    /\ ss' = [ss EXCEPT ![c] = ClearWidgets(@)]
    /\ ev' = [ev EXCEPT ![c] = "none"]
    /\ UNCHANGED <<users_exist, clients>>

(***************************************************************************)
(* Specification                                                             *)
(***************************************************************************)
Next ==
    \E c \in Clients :
        \/ NewSession(c)
        \/ LoginSubmit(c)
        \/ LogoutClick(c)
        \/ DeleteClick(c)
        \/ SetupSubmit(c)
        \/ AddUserSubmit(c)
        \/ InsertSubmit(c)
        \/ CheckPasswordEntry(c)
        \/ CheckPasswordForms(c)
        \/ app_ui(c)

Spec == Init /\ [][Next]_vars

\* two browsers are connected; each runs its own script thread against the one
\* database
InitRace == Start /\ clients = Clients

\* the store answers every connection and every query of the runs on screen
Healthy ==
    \A c \in Clients :
        run[c].msgs \cap {"conn_error", "exists_error", "save_error"} = {}

\* the first-run phase of check_password (src/app.py 176-196) for the
\* connected clients while the store is healthy: page loads, the existence
\* check and the setup form
NextRace ==
    \E c \in Clients :
        \/ NewSession(c) /\ Healthy'
        \/ SetupSubmit(c) /\ Healthy'
        \/ CheckPasswordEntry(c) /\ Healthy'
        \/ CheckPasswordForms(c) /\ Healthy'

SpecRace == InitRace /\ [][NextRace]_vars

(***************************************************************************)
(* Properties                                                                *)
(***************************************************************************)
Completed(c) == pc[c] = "idle" /\ run[c].view \notin {"none", "halt", "error"}

\* C1: whenever a login submission succeeds for username u, the session is
\* authenticated, its username is u and its is_admin is the is_admin stored
\* for u
C1_LoginSetsSession ==
    \A c \in Clients :
        run[c].login.result = "ok" =>
            /\ ss[c].authenticated = TRUE
            /\ ss[c].username = Str(run[c].login.user)
            /\ \E r \in users : /\ r.username = run[c].login.user
                                /\ r.is_admin = ss[c].is_admin

\* a standard user, created by an administrator, has logged in
C1_Witness ==
    \E c \in Clients :
        /\ run[c].login.result = "ok"
        /\ ss[c].is_admin = FALSE
        /\ \E r \in users : r.username = run[c].login.user /\ r.via = "admin"

\* C2: logout puts the session back to its initial values, and the controller
\* evaluation that follows is LOGIN: the login form without the setup form,
\* and no application
C2_LogoutReturnsToLogin ==
    \A c \in Clients :
        run[c].event = "logout" =>
            /\ ss[c].authenticated = FALSE
            /\ ss[c].username = None
            /\ ss[c].is_admin = FALSE
            /\ ~run[c].app_ui
            /\ (Completed(c) => run[c].view = "login")

\* C3: every failed login submission, for a username that is not found or a
\* password that does not verify, leaves the session unauthenticated, the
\* controller in LOGIN (when it was there) and the one generic message on
\* screen
C3_FailedLoginIsGeneric ==
    \A c \in Clients :
        run[c].login.result = "failed" =>
            /\ ss[c].authenticated = FALSE
            /\ (Completed(c) =>
                   /\ run[c].login.from = "login" => run[c].view = "login"
                   /\ "invalid_credentials" \in run[c].msgs)

\* a store failure met by the controller's own queries in this run
ControllerQueryFailed(c) ==
    /\ ~run[c].app_ui
    /\ \/ run[c].login.fault # "ok"
       \/ "exists_error" \in run[c].msgs
       \/ "conn_error" \in run[c].msgs

\* C4: a run whose existence check or lookup met a store failure never shows
\* the first-run administrator form as if no users existed and never
\* authenticates the session (stated for the tables that hold users, where
\* the form is wrong whatever the failure was)
C4_StoreFailureIsFatal ==
    \A c \in Clients :
        ControllerQueryFailed(c) /\ users # {} =>
            /\ run[c].view # "setup"
            /\ ss[c].authenticated = FALSE

\* C5: a bootstrap submission the form accepts creates an administrator, and
\* the login that follows with the username and password as typed succeeds
\* as administrator (stated for the logins whose lookup and verification
\* return, which leaves the unreadable hash of C9 aside)
C5_BootstrapThenLogin ==
    \A c \in Clients :
        /\ (made[c].via = "bootstrap" /\ made[c].result = "ok" =>
                \E r \in users : /\ r.username = Strip(made[c].user)
                                 /\ r.is_admin = TRUE)
        /\ (run[c].login.echo /\ run[c].login.result \in {"ok", "failed"} =>
                /\ run[c].login.result = "ok"
                /\ ss[c].is_admin = TRUE)

\* C6: a row enters the users table only through the bootstrap form while the
\* table is empty or through the form of an authenticated administrator, and
\* no row is ever changed or removed
C6_UsersOnlyByBootstrapOrAdmin ==
    [][/\ users \subseteq users'
       /\ \A r \in users' \ users :
             \/ r.via = "bootstrap" /\ users = {}
             \/ /\ r.via = "admin"
                /\ \E c \in Clients : /\ pc[c] = "app"
                                      /\ ss[c].authenticated
                                      /\ ss[c].is_admin]_vars

\* C7: creating a user with an empty username or password is refused as
\* invalid input without opening a connection and without touching the
\* table, by add_user_to_db and by both forms; with an empty table the
\* controller is in UNINITIALIZED
C7_EmptyInputRejected ==
    /\ \A u \in UsernameInputs, p \in PasswordInputs, adm \in BOOLEAN,
          salt \in Salts, f \in Faults :
          (u = <<>> \/ p = <<>>) =>
              LET r == add_user_to_db(users, u, p, adm, salt, f, "admin") IN
              /\ r.value = FALSE
              /\ r.result = "invalid"
              /\ r.opened = 0
              /\ r.table = users
    /\ \A tu \in UsernameInputs, tp \in PasswordInputs, adm \in BOOLEAN,
          salt \in Salts, f \in Faults :
          (Strip(tu) = <<>> \/ Strip(tp) = <<>>) =>
              LET o == SetupForm(users, tu, tp, salt, f)
                  a == AppForm(TRUE, "adduser", users, medios, tu, tp, adm, salt,
                               TRUE, f)
              IN  /\ o.kind = "continue" /\ a.kind = "continue"
                  /\ o.table = users /\ a.table = users
                  /\ o.opened = 0 /\ a.opened = 0
                  /\ o.made.result = "invalid" /\ a.made.result = "invalid"
    /\ \A c \in Clients :
          /\ made[c].result = "invalid" => made[c].opened = 0
          /\ made[c].via = "bootstrap" /\ made[c].result = "invalid" /\ pc[c] = "idle"
                => run[c].view = "setup"
          /\ users = {} /\ Completed(c) => run[c].view = "setup"

\* the bootstrap form was submitted with an empty field on an empty table
C7_Witness ==
    \E c \in Clients :
        /\ made[c].via = "bootstrap"
        /\ made[c].result = "invalid"
        /\ "fill_both" \in run[c].msgs
        /\ users = {}
        /\ run[c].view = "setup"

\* C8: usernames are unique in the table, and creating a username that exists
\* is a conflict that leaves the table as it was
C8_DuplicateIsConflict ==
    /\ [](/\ \A r1, r2 \in users : r1.username = r2.username => r1 = r2
          /\ \A r \in users, p \in PasswordInputs \ {<<>>}, adm \in BOOLEAN,
                salt \in Salts :
                LET a == add_user_to_db(users, r.username, p, adm, salt, "ok", "admin")
                IN  /\ a.value = FALSE
                    /\ a.result = "conflict"
                    /\ a.table = users)
    /\ [][\A c \in Clients :
             made'[c] # made[c] /\ made'[c].result = "conflict" => users' = users]_vars

\* a create-user attempt ended in a conflict
C8_Witness ==
    \E c \in Clients : made[c].result = "conflict"

\* the password whose hash a row stores (the digest of HashPw is the password)
StoredPlain(r) == SubSeq(r.hashed_password, 3, Len(r.hashed_password))

\* C9: for every stored user and every representation in which the driver
\* can return the hash, the hash get_user_from_db hands back verifies the
\* password it was created from
C9_RoundTripVerifies ==
    \A r \in users, rep \in Representations :
        LET got == get_user_from_db(users, r.username, "ok", rep) IN
        /\ got.value.type = "user"
        /\ check_hashed_password(StoredPlain(r), got.value.hashed_password) = "true"

RecordCalls == {"eliminar_medio_cultivo", "insertar_medio_cultivo"}

\* C10: app_ui and the record operations run only for an authenticated
\* session, and the admin tab and its user creation only for an is_admin one
C10_AppOnlyWhenAuthenticated ==
    \A c \in Clients :
        /\ pc[c] = "app" => ss[c].authenticated
        /\ run[c].app_ui => ss[c].authenticated
        /\ run[c].view = "app" => ss[c].authenticated
        /\ (\E i \in 1..Len(run[c].calls) : run[c].calls[i] \in RecordCalls)
              => ss[c].authenticated
        /\ run[c].adminTab => ss[c].authenticated /\ ss[c].is_admin
        /\ made[c].via = "admin" => ss[c].authenticated /\ ss[c].is_admin

\* a standard user is in the application, without the admin tab
C10_Witness ==
    \E c \in Clients :
        /\ run[c].view = "app"
        /\ ss[c].authenticated
        /\ ~ss[c].is_admin
        /\ ~run[c].adminTab

\* the administrators the setup form has created
BootstrapAdmins == {r \in users : r.via = "bootstrap" /\ r.is_admin}

\* C11: with two clients and a healthy store, the bootstrap form inserts only
\* for a client whose own existence check answered False, and the only thing
\* that stops a second administrator is UNIQUE(username): usernames stay
\* unique and two successful bootstraps carry different usernames
C11_BootstrapRace ==
    /\ [](/\ \A r1, r2 \in users : r1.username = r2.username => r1 = r2
          /\ (\A c \in Clients : made[c].via = "bootstrap" /\ made[c].result = "ok")
                => Strip(made[1].user) # Strip(made[2].user))
    /\ [][users' # users =>
             \E c \in Clients : /\ pc[c] = "form"
                                 /\ ~users_exist[c]
                                 /\ pc'[c] = "script"
                                 /\ made'[c].via = "bootstrap"
                                 /\ made'[c].result = "ok"]_vars

\* both clients' bootstrap submissions succeeded: two administrators
C11_Witness ==
    /\ \A c \in Clients : /\ made[c].via = "bootstrap"
                          /\ made[c].result = "ok"
                          /\ ~users_exist[c]
    /\ Cardinality(BootstrapAdmins) = 2
    /\ users = BootstrapAdmins

\* C12: an unauthenticated session has no identity (username is None) and no
\* admin role (is_admin is False), in every state; and the step of a failed
\* login submission, like the rest of its run, leaves username and is_admin
\* as they were
C12_UnauthenticatedHasNoIdentity ==
    /\ [](\A c \in Clients :
             ss[c].authenticated = FALSE =>
                 ss[c].username = None /\ ss[c].is_admin = FALSE)
    /\ [][\A c \in Clients :
             run'[c].login.result = "failed" =>
                 /\ ss'[c].username = ss[c].username
                 /\ ss'[c].is_admin = ss[c].is_admin]_vars

\* an administrator has logged out and then failed a login with the username
\* of a stored user
C12_Witness ==
    \E c \in Clients :
        /\ run[c].login.result = "failed"
        /\ \E r \in users : r.username = run[c].login.user /\ r.is_admin
        /\ run[c].view = "login"
        /\ ss[c].authenticated = FALSE
        /\ ss[c].username = None

\* in calls, every call of b comes after some call of a
CalledBefore(a, b, calls) ==
    \A j \in 1..Len(calls) :
        calls[j] = b => \E i \in 1..(j - 1) : calls[i] = a

\* C13: in an interaction cycle that processes a login submission, the calls
\* come in the order existence check, lookup, verify: no lookup without the
\* cycle's existence check before it, no verify without its lookup before it
\* (stated for the submissions made from LOGIN)
C13_ExistenceLookupVerifyOrder ==
    \A c \in Clients :
        run[c].event = "login" /\ run[c].login.from = "login" =>
            /\ CalledBefore("check_for_any_user_in_db", "get_user_from_db",
                            run[c].calls)
            /\ CalledBefore("get_user_from_db", "check_hashed_password",
                            run[c].calls)

\* C14: every store operation closes the connection it opened before it
\* returns or raises, whatever the table, the input and the fault (found and
\* not found, created and conflict, query error, connection refused, rerun);
\* and no connection is open between the steps of a cycle or after it
C14_ConnectionsReleased ==
    /\ openConns = 0
    /\ \A f \in Faults :
          /\ \A u \in UsernameInputs, rep \in Representations :
                LET g == get_user_from_db(users, u, f, rep) IN g.closed = g.opened
          /\ LET q == check_for_any_user_in_db(users, f) IN q.closed = q.opened
          /\ \A u \in UsernameInputs, p \in PasswordInputs, salt \in Salts :
                LET a == add_user_to_db(users, u, p, FALSE, salt, f, "admin")
                IN  a.closed = a.opened
          /\ LET i == insertar_medio_cultivo(medios, f) IN i.closed = i.opened
          /\ LET d == eliminar_medio_cultivo(medios, f) IN d.closed = d.opened
          /\ LET o == obtener_medios_cultivo(medios, f) IN o.closed = o.opened
          /\ LET a == actualizar_medio_cultivo(medios, f) IN a.closed = a.opened

\* a delete has committed and raised its rerun, and the connection is closed
C14_Witness ==
    \E c \in Clients :
        /\ run[c].event = "delete"
        /\ run[c].calls = <<"eliminar_medio_cultivo">>
        /\ run[c].msgs = {}
        /\ pc[c] = "script"
        /\ openConns = 0

\* C15: the generic invalid-credentials message is on screen only in a cycle
\* that processed a login submission which failed: never in a cycle without
\* a login attempt, such as the one that follows the creation of the first
\* administrator
C15_ErrorOnlyAfterFailedLogin ==
    \A c \in Clients :
        "invalid_credentials" \in run[c].msgs =>
            /\ run[c].event = "login"
            /\ run[c].login.result = "failed"

====
